---------------------------- MODULE Spec2Model ----------------------------
(***************************************************************************)
(* Model of the quantum tunnelling simulator: the closed-form barrier      *)
(* solver and the wavefunction sampler of src/utils/physics.ts, and the    *)
(* React components that drive them (src/App.tsx,                          *)
(* src/components/QuantumCanvas.tsx).                                      *)
(*                                                                         *)
(* A JavaScript number is modelled as a decimal floating-point value       *)
(* <<m, e>> that stands for m * 10^(e - 8): m = 0 (zero), or a mantissa    *)
(* of nine digits, 10^8 <= |m| < 10^9.  The exponent range, the overflow   *)
(* to Infinity, the underflow to 0 and the NaN rules are those of an       *)
(* IEEE-754 double; the precision is nine decimal digits instead of        *)
(* fifty-three bits, and the sign of zero is not kept.                     *)
(***************************************************************************)
EXTENDS Integers, Sequences, FiniteSets, TLC

---------------------------------------------------------------------------
(* JavaScript numbers                                                      *)

MantMin == 10^8
MantMax == 10^9
ExpSpecial == 400

Zero == <<0, 0>>
PosInf == <<MantMin, ExpSpecial>>
NegInf == <<-MantMin, ExpSpecial>>
NaN == <<0, ExpSpecial>>

IsNaN(a) == a = NaN
IsInf(a) == a[2] = ExpSpecial /\ a[1] # 0
IsFinite(a) == a[2] # ExpSpecial
IsZero(a) == a = Zero

AbsInt(n) == IF n < 0 THEN -n ELSE n
SignInt(n) == IF n < 0 THEN -1 ELSE IF n > 0 THEN 1 ELSE 0

\* The representations of a number and of a complex number.
Num == Int \X Int
Cplx == [re : Num, im : Num]

\* const name = x; rest, written Let(x, [name \in T |-> rest]): x is evaluated
\* once and rest sees its value. The functions below take their arguments the
\* same way, by value.
Let(x, f) == f[x]
Let2(x, y, f) == f[x, y]

\* A finite nonzero result with a normalised mantissa: Infinity above the
\* largest double (1.79769313e308), 0 below the smallest (4.94e-324).
Range(m, e) ==
    IF e > 308 \/ (e = 308 /\ AbsInt(m) > 179769313)
    THEN (IF m < 0 THEN NegInf ELSE PosInf)
    ELSE IF e < -324 \/ (e = -324 /\ AbsInt(m) < 494065645)
    THEN Zero
    ELSE <<m, e>>

NormUp[m \in Int, e \in Int] ==
    IF AbsInt(m) < MantMin THEN NormUp[m * 10, e - 1] ELSE Range(m, e)

\* The number m * 10^(e - 8) for any integer m, rounded to nine digits.
Norm[m \in Int, e \in Int] ==
    IF m = 0 THEN Zero
    ELSE IF AbsInt(m) >= MantMax
    THEN Range(SignInt(m) * ((AbsInt(m) + 5) \div 10), e + 1)
    ELSE NormUp[m, e]

\* The literal m * 10^x.
Dec(m, x) == Norm[m, x + 8]

NegV[a \in Num] == <<-a[1], a[2]>>
Neg(x) == NegV[x]
AbsV[a \in Num] == <<AbsInt(a[1]), a[2]>>
Abs(x) == AbsV[x]

\* a < b, a <= b, a === b as JavaScript evaluates them (false on NaN).
LessV[a \in Num, b \in Num] ==
    IF IsNaN(a) \/ IsNaN(b) THEN FALSE
    ELSE IF SignInt(a[1]) # SignInt(b[1]) THEN SignInt(a[1]) < SignInt(b[1])
    ELSE IF a[1] > 0 THEN a[2] < b[2] \/ (a[2] = b[2] /\ a[1] < b[1])
    ELSE IF a[1] < 0 THEN a[2] > b[2] \/ (a[2] = b[2] /\ a[1] < b[1])
    ELSE FALSE
Less(x, y) == LessV[x, y]
StrictEqV[a \in Num, b \in Num] == ~IsNaN(a) /\ ~IsNaN(b) /\ a = b
StrictEq(x, y) == StrictEqV[x, y]
LessEq(x, y) == Less(x, y) \/ StrictEq(x, y)

Pow10(n) == 10^n

\* a + b when an operand is NaN, an infinity or zero.
AddSpecial(a, b) ==
    IF IsNaN(a) \/ IsNaN(b) THEN NaN
    ELSE IF IsInf(a) THEN (IF IsInf(b) /\ b # a THEN NaN ELSE a)
    ELSE IF IsInf(b) THEN b
    ELSE IF IsZero(a) THEN b
    ELSE a
\* a + b for finite nonzero operands: the smaller is aligned to the larger.
AddFinite(a, b) ==
    IF a[2] - b[2] > 9 THEN a
    ELSE IF b[2] - a[2] > 9 THEN b
    ELSE IF a[2] >= b[2]
    THEN Norm[a[1] + SignInt(b[1]) * (AbsInt(b[1]) \div Pow10(a[2] - b[2])), a[2]]
    ELSE Norm[b[1] + SignInt(a[1]) * (AbsInt(a[1]) \div Pow10(b[2] - a[2])), b[2]]
\* a + b
AddV[a \in Num, b \in Num] ==
    IF IsFinite(a) /\ IsFinite(b) /\ ~IsZero(a) /\ ~IsZero(b)
    THEN AddFinite(a, b) ELSE AddSpecial(a, b)
Add(x, y) == AddV[x, y]

\* a - b
SubV[a \in Num, b \in Num] == AddV[a, <<-b[1], b[2]>>]
Sub(x, y) == SubV[x, y]

\* The product of two nine-digit mantissas x = x2 x1 x0 and y = y2 y1 y0 in
\* limbs of three digits, c0 .. c4 being the column sums: the limbs of weight
\* 1000^1 .. 1000^3 with their carries.
Carry1(c0, c1) == c1 + (c0 \div 1000)
Carry2(c0, c1, c2) == c2 + (Carry1(c0, c1) \div 1000)
Carry3(c0, c1, c2, c3) == c3 + (Carry2(c0, c1, c2) \div 1000)
\* <<the six leading digits, the three digits after them>>
MulCarry[c0 \in Int, c1 \in Int, c2 \in Int, c3 \in Int, c4 \in Int] ==
    <<(c4 + (Carry3(c0, c1, c2, c3) \div 1000)) * 1000 + (Carry3(c0, c1, c2, c3) % 1000),
      Carry2(c0, c1, c2) % 1000>>
MulLimbs[x2 \in Int, x1 \in Int, x0 \in Int, y2 \in Int, y1 \in Int, y0 \in Int] ==
    MulCarry[x0 * y0, x1 * y0 + x0 * y1, x2 * y0 + x1 * y1 + x0 * y2,
             x2 * y1 + x1 * y2, x2 * y2]

\* Nine digits of <<hi, lo>> = hi * 1000 + lo, rounded, with the exponent.
MulRound[t \in Num, e \in Int] ==
    IF t[1] >= MantMin
    THEN <<t[1] + (IF t[2] >= 500 THEN 1 ELSE 0), e + 1>>
    ELSE <<t[1] * 10 + (t[2] \div 100) + (IF t[2] % 100 >= 50 THEN 1 ELSE 0), e>>

\* The nine leading digits of the product of two nine-digit mantissas.
MulMant[x \in Int, y \in Int, e \in Int] ==
    MulRound[MulLimbs[x \div 1000000, (x \div 1000) % 1000, x % 1000,
                      y \div 1000000, (y \div 1000) % 1000, y % 1000], e]

\* The number sg * p[1] * 10^(p[2] - 8).
Signed[sg \in Int, p \in Num] == Norm[sg * p[1], p[2]]

\* a * b when an operand is NaN, an infinity or zero.
MulSpecial(a, b) ==
    IF IsNaN(a) \/ IsNaN(b) THEN NaN
    ELSE IF IsInf(a) \/ IsInf(b)
    THEN (IF IsZero(a) \/ IsZero(b) THEN NaN
          ELSE IF SignInt(a[1]) = SignInt(b[1]) THEN PosInf ELSE NegInf)
    ELSE Zero
\* a * b
MulV[a \in Num, b \in Num] ==
    IF IsFinite(a) /\ IsFinite(b) /\ ~IsZero(a) /\ ~IsZero(b)
    THEN Signed[SignInt(a[1]) * SignInt(b[1]),
                MulMant[AbsInt(a[1]), AbsInt(b[1]), a[2] + b[2]]]
    ELSE MulSpecial(a, b)
Mul(x, y) == MulV[x, y]

\* <<q, r>> doubled: <<(2 q y + 2 r) \div y, (2 r) % y>> for 0 <= r < y.
Twice[qr \in Num, y \in Int] ==
    IF 2 * qr[2] >= y THEN <<2 * qr[1] + 1, 2 * qr[2] - y>>
    ELSE <<2 * qr[1], 2 * qr[2]>>
\* <<q, r>> plus the remainder s, 0 <= s < y.
Plus[qr \in Num, s \in Int, y \in Int] ==
    IF qr[2] + s >= y THEN <<qr[1] + 1, qr[2] + s - y>> ELSE <<qr[1], qr[2] + s>>

\* One quotient digit: <<(10 * r) \div y, (10 * r) % y>> for 0 <= r < y, formed
\* as 2 * (2 * (2 * r) + r) so that no intermediate exceeds 2 * y.
DivStep[r \in Int, y \in Int] ==
    Twice[Plus[Twice[Twice[<<0, r>>, y], y], r, y], y]

\* The quotient q with one more digit s[1], and the new remainder s[2].
Shift[q \in Int, s \in Num] == <<q * 10 + s[1], s[2]>>

\* n more digits of the quotient qr[1], from the remainder qr[2]: the first
\* half of them, then the rest.
DivDigits[qr \in Num, y \in Int, n \in Nat] ==
    IF n = 0 THEN qr
    ELSE IF n = 1 THEN Shift[qr[1], DivStep[qr[2], y]]
    ELSE DivDigits[DivDigits[qr, y, n \div 2], y, n - (n \div 2)]

\* The quotient qr[1] rounded by its remainder qr[2], with the exponent.
DivRound[qr \in Num, y \in Int, e \in Int] ==
    <<qr[1] + (IF 2 * qr[2] >= y THEN 1 ELSE 0), e>>

\* The nine leading digits of x / y for nine-digit mantissas, rounded.
DivMant[x \in Int, y \in Int, e \in Int] ==
    DivRound[DivDigits[<<x \div y, x % y>>, y, IF x >= y THEN 8 ELSE 9], y,
             IF x >= y THEN e ELSE e - 1]

\* a / b when an operand is NaN, an infinity or zero.
DivSpecial(a, b) ==
    IF IsNaN(a) \/ IsNaN(b) THEN NaN
    ELSE IF IsInf(a)
    THEN (IF IsInf(b) THEN NaN
          ELSE IF SignInt(b[1]) < 0 THEN <<-a[1], a[2]>> ELSE a)
    ELSE IF IsInf(b) THEN Zero
    ELSE IF IsZero(b)
    THEN (IF IsZero(a) THEN NaN ELSE IF a[1] < 0 THEN NegInf ELSE PosInf)
    ELSE Zero
\* a / b
DivV[a \in Num, b \in Num] ==
    IF IsFinite(a) /\ IsFinite(b) /\ ~IsZero(a) /\ ~IsZero(b)
    THEN Signed[SignInt(a[1]) * SignInt(b[1]),
                DivMant[AbsInt(a[1]), AbsInt(b[1]), a[2] - b[2]]]
    ELSE DivSpecial(a, b)
Div(x, y) == DivV[x, y]

One == <<MantMin, 0>>
Two == <<2 * MantMin, 0>>
FromInt(n) == Dec(n, 0)

\* The integer nearest to a finite a with |a| < 10^9.
RoundInt[a \in Num] ==
    IF a[2] < -1 THEN 0
    ELSE IF a[2] >= 8 THEN a[1] * Pow10(a[2] - 8)
    ELSE SignInt(a[1]) * ((AbsInt(a[1]) + (Pow10(8 - a[2]) \div 2)) \div Pow10(8 - a[2]))

\* n steps of x := (x + b / x) / 2: the first half of them, then the rest.
Newton[b \in Num, x \in Num, n \in Nat] ==
    IF n = 0 THEN x
    ELSE IF n = 1 THEN DivV[AddV[x, DivV[b, x]], Two]
    ELSE Newton[b, Newton[b, x, n \div 2], n - (n \div 2)]

\* x * 10^h
Scale[x \in Num, h \in Int] == Range(x[1], x[2] + h)

\* Math.sqrt
SqrtV[a \in Num] ==
    IF IsNaN(a) \/ a[1] < 0 THEN NaN
    ELSE IF IsZero(a) \/ IsInf(a) THEN a
    ELSE Scale[Newton[<<a[1], a[2] % 2>>,
                      IF a[2] % 2 = 1 THEN <<6 * MantMin, 0>> ELSE Two, 6],
               (a[2] - (a[2] % 2)) \div 2]
Sqrt(x) == SqrtV[x]

Ln10 == <<230258509, 0>>
Ln2 == <<693147181, -1>>
TwoPi == <<628318531, 0>>

\* k steps of <<n, acc>> := <<n - 1, 1 + (r / n) * acc>>, the Taylor polynomial
\* of e^r in Horner form: the first half of the steps, then the rest.
ExpSeries[r \in Num, s \in Int \X Num, k \in Nat] ==
    IF k = 0 THEN s
    ELSE IF k = 1
    THEN <<s[1] - 1, AddV[One, MulV[DivV[r, FromInt(s[1])], s[2]]]>>
    ELSE ExpSeries[r, ExpSeries[r, s, k \div 2], k - (k \div 2)]

\* e^a = 10^k * e^r with r = a - k * ln 10, |r| <= (ln 10) / 2.
ExpReduced[a \in Num, k \in Int] ==
    Scale[ExpSeries[SubV[a, MulV[FromInt(k), Ln10]], <<16, One>>, 16][2], k]

\* Math.exp
ExpV[a \in Num] ==
    IF IsNaN(a) THEN NaN
    ELSE IF a = PosInf \/ LessV[FromInt(720), a] THEN PosInf
    ELSE IF a = NegInf \/ LessV[a, FromInt(-760)] THEN Zero
    ELSE ExpReduced[a, RoundInt[DivV[a, Ln10]]]
Exp(x) == ExpV[x]

\* k steps of <<n, acc>> := <<n - 2, 1 + sg * (y2 / (n * (n + 1))) * acc>>: the
\* polynomials of sin(y)/y and sinh(y)/y (n even) and of cos(y) (n odd) in
\* y2 = y^2, alternating when sg = -1.
EvenSeries[y2 \in Num, s \in Int \X Num, sg \in Int, k \in Nat] ==
    IF k = 0 THEN s
    ELSE IF k = 1
    THEN <<s[1] - 2,
           AddV[One, MulV[DivV[<<sg * y2[1], y2[2]>>, FromInt(s[1] * (s[1] + 1))], s[2]]]>>
    ELSE EvenSeries[y2, EvenSeries[y2, s, sg, k \div 2], sg, k - (k \div 2)]

\* The argument of sin and cos brought into [-pi, pi].
Reduce[a \in Num] == SubV[a, MulV[FromInt(RoundInt[DivV[a, TwoPi]]), TwoPi]]

\* sin and cos on [-pi, pi]
SinReduced[y \in Num] == MulV[y, EvenSeries[MulV[y, y], <<28, One>>, -1, 14][2]]
CosReduced[y \in Num] == EvenSeries[MulV[y, y], <<27, One>>, -1, 14][2]

\* Math.sin
SinV[a \in Num] == IF ~IsFinite(a) THEN NaN ELSE SinReduced[Reduce[a]]
Sin(x) == SinV[x]

\* Math.cos
CosV[a \in Num] == IF ~IsFinite(a) THEN NaN ELSE CosReduced[Reduce[a]]
Cos(x) == CosV[x]

\* e^|a| / 2, for |a| so large that e^-|a| does not count
HalfExp[a \in Num] == ExpV[AddV[AbsV[a], NegV[Ln2]]]

\* Math.sinh
SinhV[a \in Num] ==
    IF ~IsFinite(a) THEN a
    ELSE IF a[2] < 0 THEN MulV[a, EvenSeries[MulV[a, a], <<28, One>>, 1, 14][2]]
    ELSE IF LessV[FromInt(20), AbsV[a]] THEN MulV[FromInt(SignInt(a[1])), HalfExp[a]]
    ELSE DivV[SubV[ExpV[a], ExpV[NegV[a]]], Two]
Sinh(x) == SinhV[x]

\* Math.cosh
CoshV[a \in Num] ==
    IF IsNaN(a) THEN NaN
    ELSE IF IsInf(a) THEN PosInf
    ELSE IF LessV[FromInt(20), AbsV[a]] THEN HalfExp[a]
    ELSE DivV[AddV[ExpV[a], ExpV[NegV[a]]], Two]
Cosh(x) == CoshV[x]

---------------------------------------------------------------------------
(* src/utils/physics.ts: complex arithmetic                                *)

Complex(re, im) == [re |-> re, im |-> im]

add(x, y) == Let2(x, y, [a \in Cplx, b \in Cplx |-> Complex(Add(a.re, b.re), Add(a.im, b.im))])
sub(x, y) == Let2(x, y, [a \in Cplx, b \in Cplx |-> Complex(Sub(a.re, b.re), Sub(a.im, b.im))])
mul(x, y) ==
    Let2(x, y, [a \in Cplx, b \in Cplx |->
              Complex(Sub(Mul(a.re, b.re), Mul(a.im, b.im)),
                      Add(Mul(a.re, b.im), Mul(a.im, b.re)))])

\* The division without its guard.
QuotientUnguarded(a, b, denom) ==
    Complex(Div(Add(Mul(a.re, b.re), Mul(a.im, b.im)), denom),
            Div(Sub(Mul(a.im, b.re), Mul(a.re, b.im)), denom))

\* The branch of div that is taken for the squared modulus denom of b.
Quotient(a, b, denom) ==
    IF StrictEq(denom, Zero) THEN Complex(Zero, Zero)
    ELSE Complex(Div(Add(Mul(a.re, b.re), Mul(a.im, b.im)), denom),
                 Div(Sub(Mul(a.im, b.re), Mul(a.re, b.im)), denom))
div(x, y) ==
    Let2(x, y, [a \in Cplx, b \in Cplx |->
              Let(Add(Mul(b.re, b.re), Mul(b.im, b.im)), [denom \in Num |->
                  Quotient(a, b, denom)])])

---------------------------------------------------------------------------
(* src/utils/physics.ts: solveSchrodinger                                  *)

hbar == One

\* The guard left out.
UnguardedEnergy(E, V0) == E

\* if (Math.abs(E - V0) < 1e-4) { E += 1e-3; }
GuardedEnergy(E, V0) ==
    IF Less(Abs(Sub(E, V0)), Dec(1, -4)) THEN Add(E, Dec(1, -3)) ELSE E

\* const k1 = Math.sqrt(2 * m * E) / hbar
WaveVector(m, E) == Div(Sqrt(Mul(Mul(Two, m), E)), hbar)

\* e^{i * arg}
Cis(arg) == Let(arg, [a \in Num |-> Complex(Cos(a), Sin(a))])

\* { re: z.re / 2, im: z.im / 2 }
Half(z) == Let(z, [a \in Cplx |-> Complex(Div(a.re, Two), Div(a.im, Two))])

\* The branch E < V0.
TunnelingCase(E, V0, L, m, k1) ==
    Let(Div(Sqrt(Mul(Mul(Two, m), Sub(V0, E))), hbar), [kappa \in Num |->
    Let(Sinh(Mul(kappa, L)), [sh \in Num |->
    Let(Div(Mul(Mul(V0, V0), Mul(sh, sh)),
              Mul(Mul(FromInt(4), E), Sub(V0, E))), [term \in Num |->
    Let(Div(One, Add(One, term)), [T_prob \in Num |->
    Let(Mul(kappa, L), [kappaL \in Num |->
    Let(Cosh(kappaL), [coshKL \in Num |->
    Let(Sinh(kappaL), [sinhKL \in Num |->
    Let(Div(Sub(Mul(k1, k1), Mul(kappa, kappa)),
              Mul(Mul(Two, k1), kappa)), [gamma \in Num |->
    Let(Complex(coshKL, Mul(Neg(gamma), sinhKL)), [D \in Cplx |->
    Let(Cis(Mul(Neg(k1), L)), [num \in Cplx |->
    Let(div(num, D), [t \in Cplx |->
    Let(Div(Add(Mul(kappa, kappa), Mul(k1, k1)),
              Mul(Mul(Two, k1), kappa)), [gamma_plus \in Num |->
    Let(Complex(Zero, Mul(gamma_plus, sinhKL)), [r_num \in Cplx |->
    Let(div(r_num, D), [r \in Cplx |->
    Let(add(Complex(One, Zero), r), [onePlusR \in Cplx |->
    Let(mul(Complex(Zero, Div(k1, kappa)), sub(Complex(One, Zero), r)), [term2 \in Cplx |->
    Let(add(onePlusR, term2), [twoC2 \in Cplx |->
    Let(sub(onePlusR, term2), [twoC1 \in Cplx |->
        [r |-> r, t |-> t, c1 |-> Half(twoC1), c2 |-> Half(twoC2), k1 |-> k1,
         k2 |-> kappa, isTunneling |-> TRUE, transmissionProb |-> T_prob]
    ])])])])])])])])])])])])])])])])])])

\* The branch E >= V0.
ScatteringCase(E, V0, L, m, k1) ==
    Let(Div(Sqrt(Mul(Mul(Two, m), Sub(E, V0))), hbar), [k_prime \in Num |->
    Let(Sin(Mul(k_prime, L)), [sn \in Num |->
    Let(IF StrictEq(k_prime, Zero) THEN Zero
          ELSE Div(One, Add(One, Div(Mul(Mul(V0, V0), Mul(sn, sn)),
                                     Mul(Mul(FromInt(4), E), Sub(E, V0))))), [T_prob \in Num |->
    Let(Mul(k_prime, L), [kL \in Num |->
    Let(Cos(kL), [cosKL \in Num |->
    Let(Sin(kL), [sinKL \in Num |->
    Let(Div(Add(Mul(k1, k1), Mul(k_prime, k_prime)),
              Mul(Mul(Two, k1), k_prime)), [gamma \in Num |->
    Let(Complex(cosKL, Mul(Neg(gamma), sinKL)), [D \in Cplx |->
    Let(Cis(Mul(Neg(k1), L)), [num_t \in Cplx |->
    Let(div(num_t, D), [t \in Cplx |->
    Let(Div(Sub(Mul(k1, k1), Mul(k_prime, k_prime)),
              Mul(Mul(Two, k1), k_prime)), [gamma_minus \in Num |->
    Let(Complex(Zero, Mul(gamma_minus, sinKL)), [num_r \in Cplx |->
    Let(div(num_r, D), [r \in Cplx |->
    Let(mul(Complex(Div(k1, k_prime), Zero), sub(Complex(One, Zero), r)), [term2 \in Cplx |->
    Let(add(Complex(One, Zero), r), [onePlusR \in Cplx |->
    Let(add(onePlusR, term2), [twoC1 \in Cplx |->
    Let(sub(onePlusR, term2), [twoC2 \in Cplx |->
        [r |-> r, t |-> t, c1 |-> Half(twoC1), c2 |-> Half(twoC2), k1 |-> k1,
         k2 |-> k_prime, isTunneling |-> FALSE, transmissionProb |-> T_prob]
    ])])])])])])])])])])])])])])])])])

\* if (E < V0) { ... } else { ... } for the energy E left by the guard.
Branches(E, V0, L, m, k1) ==
    IF Less(E, V0) THEN TunnelingCase(E, V0, L, m, k1)
    ELSE ScatteringCase(E, V0, L, m, k1)

\* k1 computed from the energy of the params object, before the guard.
solveWithOriginalK1(params) ==
    Let(GuardedEnergy(params.energy, params.barrierHeight), [E \in Num |->
    Let(WaveVector(params.mass, params.energy), [k1 \in Num |->
        Branches(E, params.barrierHeight, params.barrierWidth, params.mass, k1)])])

solveSchrodinger(params) ==
    Let(GuardedEnergy(params.energy, params.barrierHeight), [E \in Num |->
    Let(WaveVector(params.mass, E), [k1 \in Num |->
        Branches(E, params.barrierHeight, params.barrierWidth, params.mass, k1)])])

Params(E, V0, L, m) ==
    [energy |-> E, barrierHeight |-> V0, barrierWidth |-> L, mass |-> m]

---------------------------------------------------------------------------
(* src/utils/physics.ts: getWaveFunctionAt                                 *)

\* e^{-iEt/hbar}, with the energy of the params object
TimePhase(params, time) == Cis(Mul(Neg(params.energy), time))

\* Region 1: e^{ik1 x} + r e^{-ik1 x}
IncidentReflected(x, coeffs) ==
    add(Cis(Mul(coeffs.k1, x)), mul(coeffs.r, Cis(Mul(Neg(coeffs.k1), x))))

\* Region 2 with the oscillatory form whatever the branch.
InteriorOscillatory(x, coeffs) ==
    add(mul(coeffs.c1, Cis(Mul(coeffs.k2, x))),
        mul(coeffs.c2, Cis(Mul(Neg(coeffs.k2), x))))

\* Region 2: c1 e^{-kappa x} + c2 e^{kappa x}, or c1 e^{ik'x} + c2 e^{-ik'x}
Interior(x, coeffs) ==
    IF coeffs.isTunneling
    THEN add(mul(coeffs.c1, Complex(Exp(Mul(Neg(coeffs.k2), x)), Zero)),
             mul(coeffs.c2, Complex(Exp(Mul(coeffs.k2, x)), Zero)))
    ELSE add(mul(coeffs.c1, Cis(Mul(coeffs.k2, x))),
             mul(coeffs.c2, Cis(Mul(Neg(coeffs.k2), x))))

\* Region 3: t e^{ik1 x}
Transmitted(x, coeffs) == mul(coeffs.t, Cis(Mul(coeffs.k1, x)))

\* x < 0
LeftOfBarrier(x) == Less(x, Zero)
\* The barrier without its two interfaces.
InBarrierOpen(x, L) == Less(Zero, x) /\ Less(x, L)
\* x >= 0 && x <= L
InBarrier(x, L) == LessEq(Zero, x) /\ LessEq(x, L)

\* psi and V before the time dependence is applied
SpatialPart(x, params, coeffs) ==
    IF LeftOfBarrier(x)
    THEN [psi |-> IncidentReflected(x, coeffs), V |-> Zero]
    ELSE IF InBarrier(x, params.barrierWidth)
    THEN [psi |-> Interior(x, coeffs), V |-> params.barrierHeight]
    ELSE [psi |-> Transmitted(x, coeffs), V |-> Zero]

Sample(psiT, V) ==
    [real |-> psiT.re,
     prob |-> Add(Mul(psiT.re, psiT.re), Mul(psiT.im, psiT.im)),
     V    |-> V]

getWaveFunctionAt(x, time, params, coeffs) ==
    Let(SpatialPart(x, params, coeffs), [part \in [psi : Cplx, V : Num] |->
    Let(mul(part.psi, TimePhase(params, time)), [psiT \in Cplx |-> Sample(psiT, part.V)])])

---------------------------------------------------------------------------
(* Calls of the pure functions: a caller builds an argument, calls the     *)
(* function once and keeps what it returns.                                *)

VARIABLES
    hpc,        \* where the caller is: "start", "solved", "resolved", "sampled",
                \* "resampled", "divstart", "divided"; "off" in the application
    hParams,    \* the params object the caller passes, as it is now
    hParams0,   \* the values the caller put into it
    hCoeffs,    \* the coeffs object the caller holds, as it is now
    hCoeffs0,   \* what the first call of solveSchrodinger returned
    hX,         \* the position and the time passed to getWaveFunctionAt
    hTime,
    hSample,    \* what the last call of getWaveFunctionAt returned
    hSample0,   \* what the first call returned
    hDiv        \* a call of div: its two arguments and its result

hvars == <<hpc, hParams, hParams0, hCoeffs, hCoeffs0, hX, hTime, hSample, hSample0, hDiv>>

\* The parameters of App's initial state (src/App.tsx).
InitialParams == Params(Dec(45, -1), Dec(6, 0), Dec(12, -1), One)

EnergyInputs ==
    {Dec(45, -1), Dec(599995, -5), Dec(6, 0), Dec(600009, -5), Dec(600011, -5),
     Dec(7, 0), Dec(8, 0)}
HeightInputs == {Zero, Dec(6, 0), Dec(40, 0)}
WidthInputs == {Dec(12, -1), Dec(15, -1), Dec(90, 0)}
MassInputs == {One, Two}
\* An energy equal to a barrier height so large that adding 1e-3 to it is
\* lost in the rounding (the mass keeps k1 of ordinary size).
HugeInputs == {Params(Dec(1, 20), Dec(1, 20), Dec(12, -1), Dec(1, -20))}
ParamInputs ==
    {Params(E, V0, L, m) :
        E \in EnergyInputs, V0 \in HeightInputs, L \in WidthInputs, m \in MassInputs}
    \cup HugeInputs

PositionInputs ==
    {Dec(-3, 0), Zero, Dec(6, -1), Dec(12, -1), Dec(15, -1), Dec(42, -1), Dec(93, 0)}
TimeInputs == {Zero, Dec(2, -2)}
\* The times the sampler is called with for the params p: the phase E * time
\* of a huge energy is beyond the precision of the number model.
SampleTimes(p) == IF p \in HugeInputs THEN {Zero} ELSE TimeInputs

ComponentInputs == {Zero, One, Dec(-2, 0), Dec(5, -1), Dec(1, -200), Dec(-3, 200)}
ComplexInputs == {Complex(re, im) : re \in ComponentInputs, im \in ComponentInputs}

NoComplex == Complex(Zero, Zero)
NoCoeffs ==
    [r |-> NoComplex, t |-> NoComplex, c1 |-> NoComplex, c2 |-> NoComplex,
     k1 |-> Zero, k2 |-> Zero, isTunneling |-> FALSE, transmissionProb |-> Zero]
NoSample == [real |-> Zero, prob |-> Zero, V |-> Zero]
NoDiv == [a |-> NoComplex, b |-> NoComplex, out |-> NoComplex]

\* The guard writing the perturbed energy into the caller's object.
ParamsWithGuardedEnergy(params) ==
    [params EXCEPT !.energy = GuardedEnergy(params.energy, params.barrierHeight)]

\* The caller's params object after solveSchrodinger has run: the solver
\* destructures it into locals (let { energy: E, ... } = params) and the guard
\* writes to the local E only.
ParamsAfterSolve(params) == params

\* The caller's objects after getWaveFunctionAt has run: both are only
\* destructured into constants.
ParamsAfterSample(params) == params
CoeffsAfterSample(coeffs) == coeffs

HarnessInit ==
    /\ \/ hpc = "start" /\ hParams \in ParamInputs
       \/ hpc = "divstart" /\ hParams = InitialParams
    /\ hParams0 = hParams
    /\ hCoeffs = NoCoeffs
    /\ hCoeffs0 = NoCoeffs
    /\ hX = Zero
    /\ hTime = Zero
    /\ hSample = NoSample
    /\ hSample0 = NoSample
    /\ hDiv = NoDiv

\* The caller in the application: no call of its own.
HarnessOff ==
    /\ hpc = "off"
    /\ hParams = InitialParams
    /\ hParams0 = InitialParams
    /\ hCoeffs = NoCoeffs
    /\ hCoeffs0 = NoCoeffs
    /\ hX = Zero
    /\ hTime = Zero
    /\ hSample = NoSample
    /\ hSample0 = NoSample
    /\ hDiv = NoDiv

\* coeffs = solveSchrodinger(params)
CallSolve ==
    /\ hpc = "start"
    /\ hCoeffs' = solveSchrodinger(hParams)
    /\ hCoeffs0' = hCoeffs'
    /\ hParams' = ParamsAfterSolve(hParams)
    /\ hpc' = "solved"
    /\ UNCHANGED <<hParams0, hX, hTime, hSample, hSample0, hDiv>>

\* a second call with the same object
CallSolveAgain ==
    /\ hpc = "solved"
    /\ hCoeffs' = solveSchrodinger(hParams)
    /\ hParams' = ParamsAfterSolve(hParams)
    /\ hpc' = "resolved"
    /\ UNCHANGED <<hParams0, hCoeffs0, hX, hTime, hSample, hSample0, hDiv>>

\* getWaveFunctionAt(x, time, params, coeffs)
CallSample ==
    /\ hpc = "solved"
    /\ \E x \in PositionInputs, time \in SampleTimes(hParams) :
          /\ hX' = x
          /\ hTime' = time
          /\ hSample' = getWaveFunctionAt(x, time, hParams, hCoeffs)
    /\ hSample0' = hSample'
    /\ hParams' = ParamsAfterSample(hParams)
    /\ hCoeffs' = CoeffsAfterSample(hCoeffs)
    /\ hpc' = "sampled"
    /\ UNCHANGED <<hParams0, hCoeffs0, hDiv>>

\* a second call with the same arguments
CallSampleAgain ==
    /\ hpc = "sampled"
    /\ hSample' = getWaveFunctionAt(hX, hTime, hParams, hCoeffs)
    /\ hParams' = ParamsAfterSample(hParams)
    /\ hCoeffs' = CoeffsAfterSample(hCoeffs)
    /\ hpc' = "resampled"
    /\ UNCHANGED <<hParams0, hCoeffs0, hX, hTime, hSample0, hDiv>>

\* div(a, b)
CallDiv ==
    /\ hpc = "divstart"
    /\ \E a \in ComplexInputs, b \in ComplexInputs :
          hDiv' = [a |-> a, b |-> b, out |-> div(a, b)]
    /\ hpc' = "divided"
    /\ UNCHANGED <<hParams, hParams0, hCoeffs, hCoeffs0, hX, hTime, hSample, hSample0>>

---------------------------------------------------------------------------
(* src/App.tsx, src/components/Controls.tsx, src/components/QuantumCanvas.tsx *)
(* An object is [id, value]: a new object gets a new id, and React compares   *)
(* hook dependencies by id (Object.is).                                       *)

VARIABLES
    params,         \* App's state: the current params object
    memo,           \* App's useMemo cell: [deps, coeffs], deps the id of the
                    \* params object the coeffs object was computed for
    handed,         \* what App's last render handed over: [canvas, stats, tutor]
    effect,         \* QuantumCanvas's effect: [active, params, coeffs], the
                    \* objects its render closure holds
    effectsPending, \* a commit whose effects have not run yet
    animationRef,   \* animationRef.current, 0 for undefined
    rafQueue,       \* the requested animation frames: {[id, params, coeffs]}
    nextRaf,        \* the id the next requestAnimationFrame returns
    timeRef,        \* timeRef.current
    frame,          \* the columns of the frame drawn last, << >> before the first
    frames,         \* how many animation-frame callbacks have run
    changes,        \* how many times the user has changed the parameters
    mounted         \* QuantumCanvas is mounted

avars ==
    <<params, memo, handed, effect, effectsPending, animationRef, rafQueue,
      nextRaf, timeRef, frame, frames, changes, mounted>>

\* src/components/AITutor.tsx
VARIABLES
    messages,       \* the chat history: a sequence of [role, text], a text being
                    \* the sequence of the pieces it was put together from
    isLoading,      \* the isLoading state of the rendered component
    input,          \* the text of the input field
    requests,       \* the calls of handleAnalyze and handleSubmit that are past
                    \* their first await: {[id, kind, pc, fullResponse]}
    nextRequest,    \* the id of the next call
    refused         \* how many submit events handleSubmit has returned from
                    \* at once because isLoading was true

tvars == <<messages, isLoading, input, requests, nextRequest, refused>>

vars == <<hvars, avars, tvars>>

\* Bounds of the exploration.
MaxChanges == 2
MaxFrames == 1
\* canvas.width, 1200 in the code: the columns px = 0 .. Width are drawn.
Width == 2

Object(id, value) == [id |-> id, value |-> value]

\* A slider move: setParams(prev => ({ ...prev, [key]: value }))
handleChange(prev, key, value) == [prev EXCEPT ![key] = value]
\* A preset button: setParams(p => ({ ...p, energy, barrierHeight, barrierWidth }))
Preset(p, E, V0, L) ==
    [p EXCEPT !.energy = E, !.barrierHeight = V0, !.barrierWidth = L]

\* The slider positions the exploration moves to (each within its slider's
\* range and on its step of 0.1).
SliderInputs ==
    {<<"energy", Dec(6, 0)>>, <<"barrierHeight", Zero>>, <<"barrierWidth", Dec(2, 0)>>}
\* The three preset buttons: Tunneling, Transmission, Block.
PresetInputs ==
    {<<Dec(4, 0), Dec(6, 0), One>>, <<Dec(7, 0), Dec(5, 0), Dec(15, -1)>>,
     <<Dec(4, 0), Dec(10, 0), Two>>}

\* A cell that is never recomputed.
useMemoOnce(cell, p) == cell

\* const coeffs = useMemo(() => solveSchrodinger(params), [params]): the cell
\* is recomputed when the params object is not the one of the last render.
useMemo(cell, p) ==
    IF cell.deps # p.id
    THEN [deps |-> p.id, coeffs |-> Object(cell.coeffs.id + 1, solveSchrodinger(p.value))]
    ELSE cell

\* The first render's cell.
FirstMemo(p) == [deps |-> p.id, coeffs |-> Object(0, solveSchrodinger(p.value))]

\* What App's JSX hands over: <QuantumCanvas params coeffs />, the stats bar
\* (coeffs), <AITutor params transmissionProb />.
Handed(p, c) ==
    [canvas |-> [params |-> p, coeffs |-> c],
     stats  |-> c.value,
     tutor  |-> [params |-> p.value, transmissionProb |-> c.value.transmissionProb]]

xMin == Dec(-3, 0)
xMax(p) == Add(p.barrierWidth, Dec(3, 0))
\* const simX = xMin + (px / width) * (xMax - xMin)
simX(px, p) == Add(xMin, Mul(Div(FromInt(px), FromInt(Width)), Sub(xMax(p), xMin)))

\* Columns after the first reading the props of the latest render.
ColumnArgsLive(px, closure, props) == IF px = 0 THEN closure ELSE props

\* The params and coeffs a column's call of getWaveFunctionAt names: the
\* variables of the effect's closure, whatever the props are by now.
ColumnArgs(px, closure, props) == closure

\* One pass of the loop over the pixel columns.
\* `live` notes the params object of the latest render at that moment.
Column(px, time, c, live) ==
    Let(simX(px, c.params.value), [x \in Num |->
        [params |-> c.params, coeffs |-> c.coeffs, x |-> x, time |-> time,
         out |-> getWaveFunctionAt(x, time, c.params.value, c.coeffs.value),
         live |-> live]])
DrawFrame(time, closure, props) ==
    [px \in 0 .. Width |->
        Column(px, time, ColumnArgs(px, closure, props), props.params.id)]

\* The time stepping backwards.
TickBack(time) == Sub(time, Dec(2, -2))

\* timeRef.current += 0.02
Tick(time) == Add(time, Dec(2, -2))

\* render(), called with the closure's objects: it advances the time, draws
\* every column and requests the next animation frame.
Render(closure, queue) ==
    /\ timeRef' = Tick(timeRef)
    /\ frame' = DrawFrame(timeRef', closure, handed.canvas)
    /\ animationRef' = nextRaf
    /\ rafQueue' = queue \cup {[id |-> nextRaf, params |-> closure.params,
                                coeffs |-> closure.coeffs]}
    /\ nextRaf' = nextRaf + 1

\* A cleanup that cancels nothing.
CleanupNothing(queue) == queue

\* The effect's cleanup:
\* if (animationRef.current) cancelAnimationFrame(animationRef.current)
Cleanup(queue) ==
    IF effect.active /\ animationRef # 0
    THEN {q \in queue : q.id # animationRef}
    ELSE queue

\* App mounted: the first render is committed, its effect has not run yet.
AppInit ==
    /\ params = Object(0, InitialParams)
    /\ memo = FirstMemo(params)
    /\ handed = Handed(params, memo.coeffs)
    /\ effect = [active |-> FALSE, params |-> params, coeffs |-> memo.coeffs]
    /\ effectsPending = TRUE
    /\ animationRef = 0
    /\ rafQueue = {}
    /\ nextRaf = 1
    /\ timeRef = Zero
    /\ frame = << >>
    /\ frames = 0
    /\ changes = 0
    /\ mounted = TRUE

\* The application in the calls of the pure functions: not mounted.
AppOff ==
    /\ params = Object(0, InitialParams)
    /\ memo = [deps |-> 0, coeffs |-> Object(0, NoCoeffs)]
    /\ handed = Handed(params, memo.coeffs)
    /\ effect = [active |-> FALSE, params |-> params, coeffs |-> memo.coeffs]
    /\ effectsPending = FALSE
    /\ animationRef = 0
    /\ rafQueue = {}
    /\ nextRaf = 1
    /\ timeRef = Zero
    /\ frame = << >>
    /\ frames = 0
    /\ changes = 0
    /\ mounted = FALSE

\* App renders with the state object p and React commits: the memo cell, the
\* props of the children, and an effect to run when a dependency is a new object.
Commit(p) ==
    /\ params' = p
    /\ memo' = useMemo(memo, p)
    /\ handed' = Handed(p, memo'.coeffs)
    /\ effectsPending' =
          (effect.params.id # p.id \/ effect.coeffs.id # memo'.coeffs.id)

\* The user moves a slider.
MoveSlider ==
    /\ hpc = "off"
    /\ mounted
    /\ changes < MaxChanges
    /\ ~effectsPending
    /\ \E in \in SliderInputs :
          Commit(Object(params.id + 1, handleChange(params.value, in[1], in[2])))
    /\ changes' = changes + 1
    /\ UNCHANGED <<effect, animationRef, rafQueue, nextRaf, timeRef, frame, frames,
                   mounted>>
    /\ UNCHANGED <<hvars, tvars>>

\* The user clicks a preset button.
ClickPreset ==
    /\ hpc = "off"
    /\ mounted
    /\ changes < MaxChanges
    /\ ~effectsPending
    /\ \E in \in PresetInputs :
          Commit(Object(params.id + 1, Preset(params.value, in[1], in[2], in[3])))
    /\ changes' = changes + 1
    /\ UNCHANGED <<effect, animationRef, rafQueue, nextRaf, timeRef, frame, frames,
                   mounted>>
    /\ UNCHANGED <<hvars, tvars>>

\* React runs the committed effect: the cleanup of the previous one, then the
\* effect body, which defines render over this render's params and coeffs and
\* calls it.
RunEffect ==
    /\ hpc = "off"
    /\ mounted
    /\ effectsPending
    /\ effect' = [active |-> TRUE, params |-> handed.canvas.params,
                  coeffs |-> handed.canvas.coeffs]
    /\ Render(effect', Cleanup(rafQueue))
    /\ effectsPending' = FALSE
    /\ UNCHANGED <<params, memo, handed, frames, changes, mounted>>
    /\ UNCHANGED <<hvars, tvars>>

\* The browser runs a requested animation frame: render() of the closure
\* that requested it.
AnimationFrame ==
    /\ hpc = "off"
    /\ frames < MaxFrames
    /\ \E q \in rafQueue : Render(q, rafQueue \ {q})
    /\ frames' = frames + 1
    /\ UNCHANGED <<params, memo, handed, effect, effectsPending, changes, mounted>>
    /\ UNCHANGED <<hvars, tvars>>

\* QuantumCanvas unmounts: React runs the cleanup of its effect.
Unmount ==
    /\ hpc = "off"
    /\ mounted
    /\ ~effectsPending
    /\ mounted' = FALSE
    /\ rafQueue' = Cleanup(rafQueue)
    /\ UNCHANGED <<params, memo, handed, effect, effectsPending, animationRef,
                   nextRaf, timeRef, frame, frames, changes>>
    /\ UNCHANGED <<hvars, tvars>>

---------------------------------------------------------------------------
(* src/components/AITutor.tsx: the two handlers and the request they       *)
(* start.  A handler runs up to its first await within the event that      *)
(* called it, and React renders the state it set before the next event;    *)
(* what follows an await runs when the request or the stream settles.      *)

\* Bounds of the exploration.
MaxRequests == 2
MaxChunks == 2
MaxRefused == 1

\* What the user can have typed: nothing, blanks, a question.
InputTexts == {"", " ", "Why does the wave decay?"}
\* input.trim()
Trim(text) == IF text = " " THEN "" ELSE text

Message(role, text) == [role |-> role, text |-> text]

\* if (!input.trim() || isLoading) return;
ReturnsAtOnce(text, loading) == Trim(text) = "" \/ loading

\* The handler ending without its finally block.
LoadingLeftAsIs(loading) == loading

\* finally { setIsLoading(false); }
LoadingAfterFinally(loading) == FALSE

\* The message the catch block of a handler appends.
ErrorMessage(kind) ==
    IF kind = "analyze"
    THEN Message("model", <<"Error connecting to the Quantum Network.">>)
    ELSE Message("model", <<"Error connecting to AI.">>)

\* newHistory[newHistory.length - 1].text = fullResponse
WithLastText(history, text) ==
    IF history = << >> THEN history
    ELSE [history EXCEPT ![Len(history)].text = text]

TutorInit ==
    /\ messages = << >>
    /\ isLoading = FALSE
    /\ input = ""
    /\ requests = {}
    /\ nextRequest = 1
    /\ refused = 0

\* A handler up to its await of streamPhysicsExplanation(...): isLoading is
\* set, the user's message appended, the request under way.
StartRequest(kind, text) ==
    /\ isLoading' = TRUE
    /\ messages' = Append(messages, Message("user", <<text>>))
    /\ requests' = requests \cup
          {[id |-> nextRequest, kind |-> kind, pc |-> "request", fullResponse |-> << >>]}
    /\ nextRequest' = nextRequest + 1

\* The user types into the input field (disabled={isLoading}).
TypeInput ==
    /\ hpc = "off"
    /\ ~isLoading
    /\ \E text \in InputTexts : input' = text
    /\ input' # input
    /\ UNCHANGED <<messages, isLoading, requests, nextRequest, refused>>
    /\ UNCHANGED <<hvars, avars>>

\* A click on "Analyze Now" (disabled={isLoading}): handleAnalyze.
ClickAnalyze ==
    /\ hpc = "off"
    /\ ~isLoading
    /\ nextRequest <= MaxRequests
    /\ StartRequest("analyze", "Analyze current simulation state")
    /\ UNCHANGED <<input, refused>>
    /\ UNCHANGED <<hvars, avars>>

\* A submit event of the form: handleSubmit.
SubmitForm ==
    /\ hpc = "off"
    /\ IF ReturnsAtOnce(input, isLoading)
       THEN /\ isLoading
            /\ refused < MaxRefused
            /\ refused' = refused + 1
            /\ UNCHANGED <<messages, isLoading, input, requests, nextRequest>>
       ELSE /\ nextRequest <= MaxRequests
            /\ input' = ""
            /\ StartRequest("submit", input)
            /\ UNCHANGED refused
    /\ UNCHANGED <<hvars, avars>>

\* The handler of the request q leaves: its finally block has run.
Leave(q) ==
    /\ requests' = requests \ {q}
    /\ isLoading' = LoadingAfterFinally(isLoading)

\* await streamPhysicsExplanation(...) returns the stream: the placeholder
\* message is appended.
RequestResolves ==
    /\ \E q \in requests :
          /\ q.pc = "request"
          /\ messages' = Append(messages, Message("model", << >>))
          /\ requests' = (requests \ {q}) \cup {[q EXCEPT !.pc = "stream"]}
    /\ UNCHANGED <<isLoading, input, nextRequest, refused>>
    /\ UNCHANGED <<hvars, avars>>

\* await streamPhysicsExplanation(...) throws: catch, finally.
RequestThrows ==
    /\ \E q \in requests :
          /\ q.pc = "request"
          /\ messages' = Append(messages, ErrorMessage(q.kind))
          /\ Leave(q)
    /\ UNCHANGED <<input, nextRequest, refused>>
    /\ UNCHANGED <<hvars, avars>>

\* The stream yields a chunk: fullResponse grows and becomes the text of the
\* last message.
StreamChunk ==
    /\ \E q \in requests :
          /\ q.pc = "stream"
          /\ Len(q.fullResponse) < MaxChunks
          /\ messages' = WithLastText(messages, Append(q.fullResponse, "chunk"))
          /\ requests' = (requests \ {q}) \cup
                {[q EXCEPT !.fullResponse = Append(q.fullResponse, "chunk")]}
    /\ UNCHANGED <<isLoading, input, nextRequest, refused>>
    /\ UNCHANGED <<hvars, avars>>

\* The stream ends: finally.
StreamCompletes ==
    /\ \E q \in requests :
          /\ q.pc = "stream"
          /\ Leave(q)
    /\ UNCHANGED <<messages, input, nextRequest, refused>>
    /\ UNCHANGED <<hvars, avars>>

\* The stream throws: catch, finally.
StreamThrows ==
    /\ \E q \in requests :
          /\ q.pc = "stream"
          /\ messages' = Append(messages, ErrorMessage(q.kind))
          /\ Leave(q)
    /\ UNCHANGED <<input, nextRequest, refused>>
    /\ UNCHANGED <<hvars, avars>>

\* The request or the stream of some call settles.
Settles == RequestResolves \/ RequestThrows \/ StreamChunk \/ StreamCompletes \/ StreamThrows

---------------------------------------------------------------------------
(* The specifications: the calls of the pure functions, the application,   *)
(* and the tutor panel.                                                    *)

SolverInit == HarnessInit /\ AppOff /\ TutorInit
SolverNext ==
    (CallSolve \/ CallSolveAgain \/ CallSample \/ CallSampleAgain \/ CallDiv)
        /\ UNCHANGED <<avars, tvars>>
SolverSpec == SolverInit /\ [][SolverNext]_vars

Init == HarnessOff /\ AppInit /\ TutorInit
Next == MoveSlider \/ ClickPreset \/ RunEffect \/ AnimationFrame \/ Unmount
Spec == Init /\ [][Next]_vars

\* The tutor panel; a request that was started settles, and a stream ends.
TutorStart == HarnessOff /\ AppOff /\ TutorInit
TutorNext ==
    \/ TypeInput \/ ClickAnalyze \/ SubmitForm
    \/ RequestResolves \/ RequestThrows \/ StreamChunk \/ StreamCompletes \/ StreamThrows
TutorSpec == TutorStart /\ [][TutorNext]_vars /\ WF_vars(Settles)

---------------------------------------------------------------------------
(* The claims.                                                             *)

\* The values of a coefficients record.
Coeffs ==
    [r : Cplx, t : Cplx, c1 : Cplx, c2 : Cplx, k1 : Num, k2 : Num,
     isTunneling : BOOLEAN, transmissionProb : Num]

\* |E - V0| < 1e-4 for the caller's values
NearDegenerate(p) == Less(Abs(Sub(p.energy, p.barrierHeight)), Dec(1, -4))
\* E': E + 1e-3 when |E - V0| < 1e-4, otherwise E
PerturbedEnergy(p) ==
    IF NearDegenerate(p) THEN Add(p.energy, Dec(1, -3)) ELSE p.energy

\* |z|^2
Modulus2(z) == Add(Mul(z.re, z.re), Mul(z.im, z.im))
\* |y - z| < 1e-6
Within(y, z) == Less(Modulus2(sub(y, z)), Dec(1, -12))
FiniteComplex(z) == IsFinite(z.re) /\ IsFinite(z.im)

\* C1: the solver's isTunneling is E' < V0, E' being the energy after the
\* degeneracy perturbation; an energy just below V0 is classified as scattering.
ClassificationFollowsPerturbedEnergy ==
    hpc = "solved" =>
        (hCoeffs.isTunneling <=>
            Less(PerturbedEnergy(hParams0), hParams0.barrierHeight))

\* A solved input with V0 - 1e-4 < E < V0, classified as scattering.
JustBelowBarrierIsScattering ==
    /\ hpc = "solved"
    /\ Less(hParams0.energy, hParams0.barrierHeight)
    /\ Less(Sub(hParams0.barrierHeight, Dec(1, -4)), hParams0.energy)
    /\ ~hCoeffs.isTunneling

\* C2: the energy is perturbed exactly when |E - V0| < 1e-4, by 1e-3, and
\* everything the solver returns is computed from the perturbed energy: k1 and,
\* through the branch taken for it, kappa or k', transmissionProb, r, t, c1, c2.
EveryQuantityUsesPerturbedEnergy ==
    hpc = "solved" =>
        Let(PerturbedEnergy(hParams0), [E \in Num |->
            hCoeffs = Branches(E, hParams0.barrierHeight, hParams0.barrierWidth,
                               hParams0.mass,
                               Div(Sqrt(Mul(Mul(Two, hParams0.mass), E)), hbar))])

\* A solved near-degenerate input whose k1 is the one of E + 1e-3, not of E.
PerturbedWaveVectorReturned ==
    /\ hpc = "solved"
    /\ NearDegenerate(hParams0)
    /\ hCoeffs.k1 = WaveVector(hParams0.mass, Add(hParams0.energy, Dec(1, -3)))
    /\ hCoeffs.k1 # WaveVector(hParams0.mass, hParams0.energy)

\* The components div(a, b) is called with are of ordinary size: no square
\* or product of them overflows or underflows.
OrdinarySize(z) ==
    /\ z.re \in {Zero, One, Dec(-2, 0), Dec(5, -1)}
    /\ z.im \in {Zero, One, Dec(-2, 0), Dec(5, -1)}

\* C3 (as amended): div returns the zero sentinel whenever the squared modulus
\* b.re^2 + b.im^2 it computes is 0, which is so for b = 0 and for a nonzero b
\* whose squares underflow; for every b whose computed squared modulus is not 0
\* and operands of ordinary size it returns the quotient: out * b = a.
DivSentinelOnZeroSquaredModulus ==
    hpc = "divided" =>
        /\ (hDiv.b.re = Zero /\ hDiv.b.im = Zero => hDiv.out = Complex(Zero, Zero))
        /\ (Modulus2(hDiv.b) = Zero => hDiv.out = Complex(Zero, Zero))
        /\ (Modulus2(hDiv.b) # Zero /\ OrdinarySize(hDiv.a) /\ OrdinarySize(hDiv.b)
               => Within(mul(hDiv.out, hDiv.b), hDiv.a))

\* A division of 1 by the nonzero 1e-200 that returned the sentinel.
DivSentinelForTinyDenominator ==
    /\ hpc = "divided"
    /\ hDiv.a = Complex(One, Zero)
    /\ hDiv.b = Complex(Dec(1, -200), Zero)
    /\ hDiv.out = Complex(Zero, Zero)

\* C3 (as stated): the sentinel for b = 0, and for every other b the
\* quotient a / b.
DivQuotientForEveryNonzeroDenominator ==
    hpc = "divided" =>
        IF hDiv.b.re = Zero /\ hDiv.b.im = Zero
        THEN hDiv.out = Complex(Zero, Zero)
        ELSE FiniteComplex(hDiv.a) => Within(mul(hDiv.out, hDiv.b), hDiv.a)

\* C6 (as stated): transmissionProb is in [0, 1] and |r|^2 + transmissionProb
\* is 1 within 1e-6, for every valid parameter set.
ProbabilityConserved ==
    hpc = "solved" =>
        /\ LessEq(Zero, hCoeffs.transmissionProb)
        /\ LessEq(hCoeffs.transmissionProb, One)
        /\ LessEq(Abs(Sub(Add(Modulus2(hCoeffs.r), hCoeffs.transmissionProb), One)),
                  Dec(1, -6))

\* C7 (as stated): the wavefunction is continuous at x = 0 (1 + r = c1 + c2)
\* and at x = L (the interior form at L equals t e^{i k1 L}), within 1e-6.
ContinuousAtBothInterfaces ==
    hpc = "solved" =>
        /\ Within(IncidentReflected(Zero, hCoeffs), Interior(Zero, hCoeffs))
        /\ Within(Interior(hParams0.barrierWidth, hCoeffs),
                  Transmitted(hParams0.barrierWidth, hCoeffs))

\* C8 (as stated): the solver returns only finite values for every valid
\* parameter set, a large kappa * L included.
SolverOutputFinite ==
    hpc = "solved" =>
        /\ FiniteComplex(hCoeffs.r) /\ FiniteComplex(hCoeffs.t)
        /\ FiniteComplex(hCoeffs.c1) /\ FiniteComplex(hCoeffs.c2)
        /\ IsFinite(hCoeffs.k1) /\ IsFinite(hCoeffs.k2)
        /\ IsFinite(hCoeffs.transmissionProb)

\* The region of a finite position x for the width L.
Left(x) == x[1] < 0
Right(x, L) == LessV[L, x]
Inside(x, L) == ~Left(x) /\ ~Right(x, L)

\* The spatial form the claim names for the position x.
FormAt(x, L, coeffs) ==
    IF Left(x) THEN IncidentReflected(x, coeffs)
    ELSE IF Right(x, L) THEN Transmitted(x, coeffs)
    ELSE Interior(x, coeffs)

\* C9: the region is chosen from x alone, the barrier being the closed
\* interval [0, L]: potential V0 and the interior form exactly when
\* 0 <= x <= L, potential 0 with the incident-plus-reflected form when x < 0
\* and with the transmitted form when x > L.
RegionChosenFromPosition ==
    hpc = "sampled" =>
        /\ hSample.V = (IF Inside(hX, hParams0.barrierWidth)
                        THEN hParams0.barrierHeight ELSE Zero)
        /\ hSample =
              Sample(mul(FormAt(hX, hParams0.barrierWidth, hCoeffs0),
                         TimePhase(hParams0, hTime)),
                     hSample.V)

\* A sample taken at x = L that has the barrier's potential and the
\* interior form, which differs from the transmitted form there.
SampleAtBarrierEndIsInside ==
    /\ hpc = "sampled"
    /\ hX = hParams0.barrierWidth
    /\ hParams0.barrierHeight # Zero
    /\ hSample.V = hParams0.barrierHeight
    /\ hSample.real #
          mul(Transmitted(hX, hCoeffs0), TimePhase(hParams0, hTime)).re

FrameUsesOneSnapshot ==
    \A px \in DOMAIN frame : \A py \in DOMAIN frame :
        /\ frame[px].params = frame[py].params
        /\ frame[px].coeffs = frame[py].coeffs

\* A frame drawn by the running loop after the parameters had changed: the
\* params object of its columns is older than the one of the latest render.
FrameDrawnAfterChange ==
    /\ frame # << >>
    /\ \A px \in DOMAIN frame : frame[px].params.id < frame[px].live

\* C5: the coefficients handed to the canvas, the stats bar and the tutor are
\* solveSchrodinger of the parameters handed over with them, and every column
\* of a frame is sampled with coefficients that are solveSchrodinger of the
\* params it is sampled with.
HandedCoeffsSolveHandedParams ==
    /\ handed.canvas.params = params
    /\ handed.tutor.params = params.value
    /\ Let(solveSchrodinger(params.value), [c \in Coeffs |->
          /\ handed.canvas.coeffs.value = c
          /\ handed.stats = c
          /\ handed.tutor.transmissionProb = c.transmissionProb])
    /\ \A p \in {frame[px].params.value : px \in DOMAIN frame} :
          Let(solveSchrodinger(p), [c \in Coeffs |->
              \A px \in DOMAIN frame :
                  frame[px].params.value = p => frame[px].coeffs.value = c])

\* A frame drawn with the objects of the latest render after a change that
\* turned the initial tunneling case into a scattering one.
FrameDrawnWithNewCoeffs ==
    /\ changes > 0
    /\ frame # << >>
    /\ frame[0].params = params
    /\ frame[0].coeffs = handed.canvas.coeffs
    /\ ~frame[0].coeffs.value.isTunneling

\* C11: the time passed to getWaveFunctionAt advances by the fixed step 0.02
\* once per rendered frame (a step that requests an animation frame is a
\* rendered frame), is the same for every column of that frame, and is never
\* decreased or reset, also when the loop is restarted after a change.
TimeAdvancesOncePerFrame ==
    [][IF nextRaf' # nextRaf
       THEN /\ timeRef' = Add(timeRef, Dec(2, -2))
            /\ Less(timeRef, timeRef')
            /\ \A px \in DOMAIN frame' : frame'[px].time = timeRef'
       ELSE timeRef' = timeRef /\ frame' = frame]_vars

\* The loop restarted for changed parameters has drawn its first frame, the
\* third frame overall, at the time 0.06.
RestartedLoopContinuesTime ==
    /\ changes > 0
    /\ ~effectsPending
    /\ frame # << >>
    /\ frame[0].params = params
    /\ params.id > 0
    /\ nextRaf = 4
    /\ timeRef = Dec(6, -2)
    /\ \A px \in DOMAIN frame : frame[px].time = Dec(6, -2)

\* C14: at most one animation frame is requested at any moment; once the
\* effect has run for the current params and coeffs the request is the one
\* of the current loop, and after the unmount none is left.
OneLoopScheduled ==
    /\ Cardinality(rafQueue) <= 1
    /\ mounted /\ ~effectsPending =>
          \A q \in rafQueue :
              /\ q.id = animationRef
              /\ q.params = handed.canvas.params
              /\ q.coeffs = handed.canvas.coeffs
    /\ ~mounted => rafQueue = {}

\* The loop was restarted after the old one had drawn a frame while the
\* change was committed: only the new loop's request is pending.
OldLoopCancelledOnRestart ==
    /\ changes > 0
    /\ frames > 0
    /\ mounted
    /\ ~effectsPending
    /\ \E q \in rafQueue : q.params = params /\ q.id > 2
    /\ Cardinality(rafQueue) = 1

\* kappa = sqrt(2 m (V0 - E')) / hbar and k' = sqrt(2 m (E' - V0)) / hbar
Kappa(p) ==
    Div(Sqrt(Mul(Mul(Two, p.mass), Sub(p.barrierHeight, PerturbedEnergy(p)))), hbar)
KPrime(p) ==
    Div(Sqrt(Mul(Mul(Two, p.mass), Sub(PerturbedEnergy(p), p.barrierHeight))), hbar)

\* c1 e^{-k2 x} + c2 e^{k2 x} with real exponentials
RealExponentialForm(x, c) ==
    add(mul(c.c1, Complex(Exp(Mul(Neg(c.k2), x)), Zero)),
        mul(c.c2, Complex(Exp(Mul(c.k2, x)), Zero)))
\* c1 e^{i k2 x} + c2 e^{-i k2 x}
OscillatoryForm(x, c) ==
    add(mul(c.c1, Complex(Cos(Mul(c.k2, x)), Sin(Mul(c.k2, x)))),
        mul(c.c2, Complex(Cos(Mul(Neg(c.k2), x)), Sin(Mul(Neg(c.k2), x)))))

\* C12: the coefficients' k2 is kappa when isTunneling is true and k' when it
\* is false, and a sample at 0 <= x <= L is built from the real-exponential
\* form in the first case and from the oscillatory form in the second.
InteriorFormMatchesBranch ==
    /\ hpc \in {"solved", "sampled"} =>
          hCoeffs.k2 = (IF hCoeffs.isTunneling THEN Kappa(hParams0)
                        ELSE KPrime(hParams0))
    /\ hpc = "sampled" /\ Inside(hX, hParams0.barrierWidth) =>
          hSample =
             Sample(mul(IF hCoeffs.isTunneling
                        THEN RealExponentialForm(hX, hCoeffs)
                        ELSE OscillatoryForm(hX, hCoeffs),
                        TimePhase(hParams0, hTime)),
                    hParams0.barrierHeight)

\* A sample inside the barrier with tunneling coefficients: it is not what
\* the oscillatory form gives there.
TunnelingSampleUsesRealExponentials ==
    /\ hpc = "sampled"
    /\ hCoeffs.isTunneling
    /\ Less(Zero, hX) /\ Less(hX, hParams0.barrierWidth)
    /\ hCoeffs.k2 = Kappa(hParams0)
    /\ hSample.real #
          mul(OscillatoryForm(hX, hCoeffs), TimePhase(hParams0, hTime)).re

\* C13 (as stated): the energy E' the solver uses satisfies |E' - V0| >= 1e-4
\* for every valid parameter set, so that neither k' (scattering) nor kappa
\* (tunneling) is 0.
PerturbedEnergyAwayFromBarrier ==
    hpc = "solved" =>
        /\ LessEq(Dec(1, -4), Abs(Sub(PerturbedEnergy(hParams0), hParams0.barrierHeight)))
        /\ hCoeffs.k2 # Zero

\* C15: a call of handleAnalyze or handleSubmit that starts a request sets
\* isLoading; when its request throws, or its stream completes or throws, the
\* call sets isLoading to false, after one error message if something was
\* thrown; a call of handleSubmit while isLoading is true starts no request;
\* and a request that was started is followed by isLoading being false again.
LoadingSetAndReset ==
    /\ [][/\ nextRequest' # nextRequest => ~isLoading /\ isLoading'
          /\ \A q \in requests \ requests' :
                (\A n \in requests' : n.id # q.id) =>
                    /\ isLoading' = FALSE
                    /\ IF messages' = messages
                       THEN q.pc = "stream"
                       ELSE messages' = Append(messages, ErrorMessage(q.kind))
          /\ refused' # refused => isLoading /\ requests' = requests
       ]_vars
    /\ (requests # {}) ~> (requests = {} /\ ~isLoading)

\* A request started by handleSubmit whose stream threw after a chunk, and
\* during which a submit event was refused: the history ends with the partial
\* answer and the error message, and isLoading is false again.
StreamErrorHandledAndLoadingReset ==
    /\ ~isLoading
    /\ requests = {}
    /\ refused = 1
    /\ Len(messages) = 3
    /\ messages[1].role = "user"
    /\ messages[2] = Message("model", <<"chunk">>)
    /\ messages[3] = ErrorMessage("submit")

===========================================================================
